---- MODULE Spec2Model ----
(***************************************************************************)
(* sqlite_backup (seanbreckenridge/sqlite_backup): one call of             *)
(* sqlite_backup.core.sqlite_backup, step by step, next to an external     *)
(* writer that owns the source database and modifies its files at any      *)
(* moment of the call.                                                     *)
(*                                                                         *)
(* A file is its data, an integer, or Absent.  The data of the primary     *)
(* file is the number of rows merged into it, the data of the -wal file    *)
(* the number of rows that are committed but not merged yet.               *)
(***************************************************************************)
EXTENDS Integers, Sequences, FiniteSets, TLC

\* ---------------------------------------------------------------- bounds
MaxData == 1
MaxWrites == 2
MaxCallWrites == 1
MaxRetry == 1

\* ------------------------------------------------------------- the files
Absent == -1
Data == 0..MaxData

Primary == "db"
Wal == "db-wal"
Shm == "db-shm"
Journal == "db-journal"
Names == {Primary, Wal, Shm, Journal}
Sidecars == Names \ {Primary}
\* the order in which the source directory lists the sidecar files
DirOrder == <<Wal, Shm, Journal>>

NoFiles == [n \in Names |-> Absent]

\* the values of the destination argument: None, a new path, the source
\* path itself, an os.PathLike object that is neither str nor Path, and an
\* object pathlib.Path() does not accept
Destinations == {"none", "out", Primary, "pathlike", "badtype"}
CopyFunctions == {"atomic_copy", "atomic_copy_failed", "custom"}

VARIABLES
    opt,          \* the arguments of the call
    owner,        \* the owner of the source holds a connection to it
    src,          \* the source directory: name -> data or Absent
    shadow,       \* the source directory as the writer alone has made it
    instants,     \* every content the source directory had during the call
    nWrites,      \* modifications by the external writer so far
    writerBudget, \* the modifications the writer is followed for
    pc,           \* position of the call in sqlite_backup
    err,          \* the exception the call ended with
    td,           \* "none", "exists", "removed": the TemporaryDirectory
    staged,       \* the files in the temporary directory
    files,        \* source_files, the result of glob_database_files
    retry,        \* copy_all_files: retry
    idx,          \* copy_all_files: the file the round is at
    cur,          \* copy_all_files: results of the calls of this round
    rounds,       \* history: per finished round, the calls it made and
                  \* whether one of them reported not clean
    succeeded,    \* atomic_copy: succeeded
    cmps,         \* history: results of filecmp.cmp in this atomic_copy call
    lastCall,     \* history: the last atomic_copy return, <<result, cmps>>
    stagerResult, \* "none", or what copy_all_files returned: "True", "False"
    copyFrom,     \* "none", "staged" or "live": copy_from
    srcConn,      \* "none", "open", "closed": conn
    dstConn,      \* "none", "open", "closed": target_connection
    dest,         \* the files of the destination database (Primary alone
                  \* when it is in memory)
    returned,     \* "nothing", "None" or "connection"
    warned,       \* warnings.warn calls
    nCalls,       \* calls of copy_function
    nCopies,      \* calls of shutil.copy
    globName,     \* glob_database_files alone: the name of source_database
    globDir,      \* glob_database_files alone: the names in its directory
    globResult,   \* glob_database_files alone: the names returned
    steps,        \* history: the steps of sqlite_backup the call has taken
    tmpRoot,      \* two calls at once: the directories of the system's
                  \* temporary directory, name -> [exists, files]
    pair,         \* two calls at once: call -> its source, position,
                  \* directory name, destination and exception
    main          \* the command line alone: its arguments, the file system
                  \* at DESTINATION, its position, the call of sqlite_backup
                  \* it made and its exit status

stagerVars == <<files, retry, idx, cur, rounds, succeeded, cmps, lastCall,
                stagerResult, nCalls, nCopies>>
connVars == <<srcConn, dstConn, dest, returned>>
writerVars == <<shadow, instants, nWrites, writerBudget>>
callVars == <<opt, owner, src, writerVars, pc, err, td, staged, stagerVars,
              copyFrom, connVars, warned, steps>>
globVars == <<globName, globDir, globResult>>
\* what a call of sqlite_backup leaves alone
pairVars == <<tmpRoot, pair>>
mainVars == <<main>>
asideVars == <<globVars, pairVars, mainVars>>
vars == <<callVars, asideVars>>

\* ------------------------------------------------------------ exceptions
Err(t, a, r) == [type |-> t, arg |-> a, retry |-> r]
NoErr == Err("none", "", 0)

RaisesNoCleanup(e) ==
    /\ pc' = "failed"
    /\ err' = e

LeakTempDirRaises(e) ==
    /\ RaisesNoCleanup(e)
    /\ UNCHANGED <<td, staged>>

\* an exception inside `with TemporaryDirectory() as td:` leaves the block:
\* TemporaryDirectory.__exit__ removes the directory and what is in it
RaisesInTempDir(e) ==
    /\ RaisesNoCleanup(e)
    /\ td' = "removed"
    /\ staged' = NoFiles

\* --------------------------------------------------------- pure functions
\* os.stat(f).st_size: files of different data may have the same size
Size(d) == d \div 2

\* filecmp.cmp(src, dest, shallow=True): equal signatures (size and mtime;
\* shutil.copy does not copy the mtime, sameMtime says that the two happen
\* to agree) compare equal without a look at the data; files of different
\* size are unequal; otherwise the data decide
filecmp_signature_only(a, b, sameMtime) == Size(a) = Size(b) /\ sameMtime

filecmp(a, b, sameMtime) ==
    IF Size(a) = Size(b) /\ sameMtime THEN TRUE
    ELSE IF Size(a) # Size(b) THEN FALSE
    ELSE a = b

\* name.endswith("-shm")
EndsWithShm(n) == n = Shm

\* glob_database_files: the primary, then every sibling `<name>-*` in
\* directory order, -shm left out
glob_primary_only(dir) == <<Primary>>

glob_database_files(dir) ==
    <<Primary>> \o SelectSeq(DirOrder, LAMBDA n : dir[n] # Absent /\ ~EndsWithShm(n))

\* atomic_copy, lines 65-73, after one comparison: whether the call returns
\* and the value of succeeded
AfterCmpKeepsSucceeded(succ, equal) == [returns |-> equal, succeeded |-> succ]

AfterCmpAlwaysFailed(succ, equal) == [returns |-> equal, succeeded |-> FALSE]

AfterCmp(succ, equal) ==
    [returns |-> equal, succeeded |-> IF equal THEN succ ELSE FALSE]

\* what the copy function of the call returns when its atomic_copy returned
\* ac: tests/test_sqlite_backup.py's atomic_copy_failed returns False
CopyFunctionReturn(fn, ac) == IF fn = "atomic_copy_failed" THEN FALSE ELSE ac

\* copy_all_files, line 117: all([...]) of the round's results
AnyClean(results) == \E i \in 1..Len(results) : results[i]

AllClean(results) == \A i \in 1..Len(results) : results[i]

\* copy_all_files, line 115: the loop runs while retry >= 0
LoopRunsOnceMore(r) == r >= -1

LoopRunsWhilePositive(r) == r > 0

LoopRuns(r) == r >= 0

\* sqlite_backup, line 217
ExhaustedIgnoresStrict(ok, strict) == ~ok

StagingExhausted(ok, strict) == ~ok /\ strict

\* what a normal (replaying) connection reads from a database's files, and
\* what an immutable one does
NormalRead(f) == f[Primary] + (IF f[Wal] = Absent THEN 0 ELSE f[Wal])
ImmutableRead(f) == f[Primary]

\* the engine, as a reader: a normal connection that reads a database with
\* a -wal file builds the -shm index when there is none
EngineRead(f) ==
    IF f[Wal] # Absent /\ f[Shm] = Absent THEN [f EXCEPT ![Shm] = 0] ELSE f

\* the engine, closing a connection: the last connection to close merges
\* the -wal file into the primary file and unlinks -wal and -shm
\* (tests/test_sqlite_backup.py, lines 187-192)
EngineClose(f, last) ==
    IF last /\ f[Wal] # Absent
    THEN [f EXCEPT ![Primary] = NormalRead(f), ![Wal] = Absent, ![Shm] = Absent]
    ELSE f

\* Connection.backup into an empty destination: every row a normal read of
\* the source sees.  A destination file may keep the source's layout, the
\* unmerged rows in its own -wal file (test_backup_without_checkpoint), or
\* hold all of them in the primary file: the engine build decides
BackupDropsWal(f, toFile, keepsLayout) == [NoFiles EXCEPT ![Primary] = f[Primary]]

BackupResult(f, toFile, keepsLayout) ==
    IF toFile /\ keepsLayout /\ f[Wal] # Absent
    THEN [NoFiles EXCEPT ![Primary] = f[Primary], ![Wal] = f[Wal], ![Shm] = 0]
    ELSE [NoFiles EXCEPT ![Primary] = NormalRead(f)]

\* PRAGMA wal_checkpoint(TRUNCATE): -wal merged into the primary file and
\* truncated to zero bytes
CheckpointKeepsWal(f) == f

Checkpointed(f) ==
    IF f[Wal] = Absent THEN f
    ELSE [f EXCEPT ![Primary] = NormalRead(f), ![Wal] = 0]

\* --------------------------------------------------------------- options
Options ==
    [destination : Destinations,
     wal_checkpoint : BOOLEAN,
     copy_use_tempdir : BOOLEAN,
     copy_retry : -1..MaxRetry,
     copy_retry_strict : BOOLEAN,
     copy_function : CopyFunctions]

\* the calls of the model: an argument the call cannot read has one value
\* (wal_checkpoint is read at line 248 for a destination path only;
\* copy_retry and copy_function are read when staging is on)
Calls ==
    {o \in Options :
        /\ o.destination \in {"none", "pathlike"} => o.wal_checkpoint
        /\ ~o.copy_use_tempdir =>
              o.copy_retry = 0 /\ o.copy_function = "atomic_copy"}

\* the source directory when the call starts: no database; a database in
\* rollback mode, with or without its journal; a database in WAL mode, its
\* -shm index present or not
InitialDirs ==
    {d \in [Names -> Data \cup {Absent}] :
        /\ d[Shm] \in {Absent, 0}
        /\ d[Journal] \in {Absent, 0}
        /\ d[Primary] = Absent => \A n \in Sidecars : d[n] = Absent
        /\ d[Wal] = Absent => d[Shm] = Absent
        /\ d[Wal] # Absent => d[Journal] = Absent}

Unstarted ==
    /\ shadow = src
    /\ instants = {src}
    /\ nWrites = 0
    /\ err = NoErr
    /\ staged = NoFiles
    /\ files = <<>>
    /\ retry = 0
    /\ idx = 0
    /\ cur = <<>>
    /\ rounds = <<>>
    /\ succeeded = TRUE
    /\ cmps = <<>>
    /\ lastCall = <<>>
    /\ stagerResult = "none"
    /\ copyFrom = "none"
    /\ srcConn = "none"
    /\ dstConn = "none"
    /\ dest = NoFiles
    /\ returned = "nothing"
    /\ warned = 0
    /\ nCalls = 0
    /\ nCopies = 0

\* glob_database_files is not looked at alone
NoGlob ==
    /\ globName = <<>>
    /\ globDir = <<>>
    /\ globResult = <<>>

\* no second call is looked at
NoPair ==
    /\ tmpRoot = <<>>
    /\ pair = <<>>

NoMain == main = <<>>

\* a call of sqlite_backup is about to start
Init ==
    /\ NoGlob
    /\ NoPair
    /\ NoMain
    /\ opt \in Calls
    /\ owner \in (IF opt.copy_use_tempdir THEN {TRUE} ELSE BOOLEAN)
    /\ src \in InitialDirs
    /\ writerBudget = MaxCallWrites
    /\ pc = "validate"
    /\ td = "none"
    /\ steps = <<>>
    /\ Unstarted

\* the stager alone: sqlite_backup with its default arguments but for
\* copy_retry and copy_function is at line 211, the directory made
DefaultCall ==
    [destination |-> "none", wal_checkpoint |-> TRUE, copy_use_tempdir |-> TRUE,
     copy_retry |-> 0, copy_retry_strict |-> TRUE, copy_function |-> "atomic_copy"]

InitStager ==
    /\ NoGlob
    /\ NoPair
    /\ NoMain
    /\ \E r \in -1..MaxRetry, fn \in CopyFunctions :
         opt = [DefaultCall EXCEPT !.copy_retry = r, !.copy_function = fn]
    /\ owner = TRUE
    /\ src \in {d \in InitialDirs : d[Primary] # Absent}
    /\ writerBudget = MaxWrites
    /\ pc = "glob"
    /\ td = "exists"
    /\ steps = <<"validate", "mktemp">>
    /\ Unstarted

\* ------------------------------------------------------------ validation
\* sqlite_backup, lines 183-204: the source must exist, the destination
\* must not be the source; Path(destination) raises TypeError for an object
\* that is no path
ValidateWithoutSamePathCheck ==
    /\ pc = "validate"
    /\ steps' = Append(steps, "validate")
    /\ IF src[Primary] = Absent
       THEN RaisesNoCleanup(Err("FileNotFoundError", Primary, 0))
       ELSE IF opt.destination = "badtype"
       THEN RaisesNoCleanup(Err("TypeError", "", 0))
       ELSE pc' = "mktemp" /\ err' = err
    /\ UNCHANGED <<asideVars, opt, owner, src, writerVars, td, staged,
                   stagerVars, copyFrom, connVars, warned>>

ValidateDestinationFirst ==
    /\ pc = "validate"
    /\ steps' = Append(steps, "validate")
    /\ IF opt.destination = "badtype"
       THEN RaisesNoCleanup(Err("TypeError", "", 0))
       ELSE IF opt.destination = Primary
       THEN RaisesNoCleanup(Err("ValueError", Primary, 0))
       ELSE IF src[Primary] = Absent
       THEN RaisesNoCleanup(Err("FileNotFoundError", Primary, 0))
       ELSE pc' = "mktemp" /\ err' = err
    /\ UNCHANGED <<asideVars, opt, owner, src, writerVars, td, staged,
                   stagerVars, copyFrom, connVars, warned>>

Validate ==
    /\ pc = "validate"
    /\ steps' = Append(steps, "validate")
    /\ IF src[Primary] = Absent
       THEN RaisesNoCleanup(Err("FileNotFoundError", Primary, 0))
       ELSE IF opt.destination = "badtype"
       THEN RaisesNoCleanup(Err("TypeError", "", 0))
       ELSE IF opt.destination = Primary
       THEN RaisesNoCleanup(Err("ValueError", Primary, 0))
       ELSE pc' = "mktemp" /\ err' = err
    /\ UNCHANGED <<asideVars, opt, owner, src, writerVars, td, staged,
                   stagerVars, copyFrom, connVars, warned>>

\* line 206: with TemporaryDirectory() as td
MkTemp ==
    /\ pc = "mktemp"
    /\ steps' = Append(steps, "mktemp")
    /\ td' = "exists"
    /\ pc' = IF opt.copy_use_tempdir THEN "glob" ELSE "warn"
    /\ UNCHANGED <<asideVars, opt, owner, src, writerVars, err, staged,
                   stagerVars, copyFrom, connVars, warned>>

\* --------------------------------------------------------------- staging
\* lines 211-216 and 107-114: the file set is enumerated and copy_all_files
\* entered
Glob ==
    /\ pc = "glob"
    /\ steps' = Append(steps, "staging")
    /\ files' = glob_database_files(src)
    /\ retry' = opt.copy_retry
    /\ pc' = "loop"
    /\ UNCHANGED <<asideVars, opt, owner, src, writerVars, err, td, staged,
                   idx, cur, rounds, succeeded, cmps, lastCall, stagerResult,
                   nCalls, nCopies, copyFrom, connVars, warned>>

\* line 115, and line 123 when the loop is over
LoopTest ==
    /\ pc = "loop"
    /\ IF LoopRuns(retry)
       THEN /\ idx' = 1
            /\ cur' = <<>>
            /\ pc' = "call"
            /\ UNCHANGED stagerResult
       ELSE /\ stagerResult' = "False"
            /\ pc' = "strict_check"
            /\ UNCHANGED <<idx, cur>>
    /\ UNCHANGED <<asideVars, steps, opt, owner, src, writerVars, err, td,
                   staged, files, retry, rounds, succeeded, cmps, lastCall,
                   nCalls, nCopies, copyFrom, connVars, warned>>

\* the call of copy_function for one file has returned result
FinishCallShortCircuit(result) ==
    /\ cur' = Append(cur, result)
    /\ IF idx = Len(files) \/ ~result
       THEN pc' = "round_end" /\ idx' = idx
       ELSE pc' = "call" /\ idx' = idx + 1

FinishCall(result) ==
    /\ cur' = Append(cur, result)
    /\ IF idx = Len(files)
       THEN pc' = "round_end" /\ idx' = idx
       ELSE pc' = "call" /\ idx' = idx + 1

\* line 117: copy_function(s, d) is called; atomic_copy starts at line 62
CallAtomicCopy ==
    /\ pc = "call"
    /\ opt.copy_function \in {"atomic_copy", "atomic_copy_failed"}
    /\ nCalls' = nCalls + 1
    /\ succeeded' = TRUE
    /\ cmps' = <<>>
    /\ pc' = "ac_copy"
    /\ UNCHANGED <<asideVars, steps, opt, owner, src, writerVars, err, td,
                   staged, files, retry, idx, cur, rounds, lastCall,
                   stagerResult, nCopies, copyFrom, connVars, warned>>

\* line 117 with a copy function of the caller's: it copies the file or does
\* not, and reports clean, reports not clean, or raises
CallCustom ==
    /\ pc = "call"
    /\ opt.copy_function = "custom"
    /\ nCalls' = nCalls + 1
    /\ \E copies \in BOOLEAN, outcome \in {"clean", "dirty", "raise"} :
         LET f == files[idx]
             put == IF copies /\ src[f] # Absent
                    THEN [staged EXCEPT ![f] = src[f]] ELSE staged
         IN IF outcome = "raise"
            THEN /\ RaisesInTempDir(Err("CopyFunctionError", f, 0))
                 /\ UNCHANGED <<idx, cur>>
            ELSE /\ staged' = put
                 /\ FinishCall(outcome = "clean")
                 /\ UNCHANGED <<err, td>>
    /\ UNCHANGED <<asideVars, steps, opt, owner, src, writerVars, files,
                   retry, rounds, succeeded, cmps, lastCall, stagerResult,
                   nCopies, copyFrom, connVars, warned>>

\* atomic_copy, line 64: shutil.copy(src, dest)
AcCopy ==
    /\ pc = "ac_copy"
    /\ LET f == files[idx]
       IN IF src[f] = Absent
          THEN /\ RaisesInTempDir(Err("FileNotFoundError", f, 0))
               /\ UNCHANGED nCopies
          ELSE /\ staged' = [staged EXCEPT ![f] = src[f]]
               /\ nCopies' = nCopies + 1
               /\ pc' = "ac_cmp"
               /\ UNCHANGED <<err, td>>
    /\ UNCHANGED <<asideVars, steps, opt, owner, src, writerVars, files,
                   retry, idx, cur, rounds, succeeded, cmps, lastCall,
                   stagerResult, nCalls, copyFrom, connVars, warned>>

\* atomic_copy, lines 65-73: filecmp.cmp, then return or retry
AcCmpWaitsForEqual ==
    /\ pc = "ac_cmp"
    /\ LET f == files[idx]
       IN IF src[f] = Absent
          THEN /\ RaisesInTempDir(Err("FileNotFoundError", f, 0))
               /\ UNCHANGED <<idx, cur, succeeded, cmps, lastCall>>
          ELSE LET equal == src[f] = staged[f]
                   after == AfterCmp(succeeded, equal)
               IN /\ cmps' = Append(cmps, equal)
                  /\ succeeded' = after.succeeded
                  /\ after.returns
                  /\ lastCall' = <<after.succeeded, cmps'>>
                  /\ FinishCall(CopyFunctionReturn(opt.copy_function,
                                                   after.succeeded))
                  /\ UNCHANGED <<err, td, staged>>
    /\ UNCHANGED <<asideVars, steps, opt, owner, src, writerVars, files,
                   retry, rounds, stagerResult, nCalls, nCopies, copyFrom,
                   connVars, warned>>

AcCmp ==
    /\ pc = "ac_cmp"
    /\ LET f == files[idx]
       IN IF src[f] = Absent
          THEN /\ RaisesInTempDir(Err("FileNotFoundError", f, 0))
               /\ UNCHANGED <<idx, cur, succeeded, cmps, lastCall>>
          ELSE \E sameMtime \in BOOLEAN :
               LET equal == filecmp(src[f], staged[f], sameMtime)
                   after == AfterCmp(succeeded, equal)
               IN /\ cmps' = Append(cmps, equal)
                  /\ succeeded' = after.succeeded
                  /\ IF after.returns
                     THEN /\ lastCall' = <<after.succeeded, cmps'>>
                          /\ FinishCall(CopyFunctionReturn(opt.copy_function,
                                                           after.succeeded))
                     ELSE /\ pc' = "ac_copy"
                          /\ UNCHANGED <<idx, cur, lastCall>>
                  /\ UNCHANGED <<err, td, staged>>
    /\ UNCHANGED <<asideVars, steps, opt, owner, src, writerVars, files,
                   retry, rounds, stagerResult, nCalls, nCopies, copyFrom,
                   connVars, warned>>

\* what the history keeps of a round
RoundRecord(results) ==
    [calls |-> Len(results),
     dirty |-> \E i \in 1..Len(results) : ~results[i]]

\* copy_all_files, lines 117-122: the round is over
RoundEnd ==
    /\ pc = "round_end"
    /\ rounds' = Append(rounds, RoundRecord(cur))
    /\ cur' = <<>>
    /\ IF AllClean(cur)
       THEN /\ stagerResult' = "True"
            /\ pc' = "strict_check"
            /\ UNCHANGED retry
       ELSE /\ retry' = retry - 1
            /\ pc' = "loop"
            /\ UNCHANGED stagerResult
    /\ UNCHANGED <<asideVars, steps, opt, owner, src, writerVars, err, td,
                   staged, files, idx, succeeded, cmps, lastCall, nCalls,
                   nCopies, copyFrom, connVars, warned>>

\* sqlite_backup, lines 217-224
StrictCheckCopiesFromSource ==
    /\ pc = "strict_check"
    /\ IF StagingExhausted(stagerResult = "True", opt.copy_retry_strict)
       THEN /\ RaisesInTempDir(Err("SqliteBackupError", "", opt.copy_retry))
            /\ UNCHANGED copyFrom
       ELSE /\ copyFrom' = "live"
            /\ pc' = "open_dst"
            /\ UNCHANGED <<err, td, staged>>
    /\ UNCHANGED <<asideVars, steps, opt, owner, src, writerVars, stagerVars,
                   connVars, warned>>

StrictCheck ==
    /\ pc = "strict_check"
    /\ IF StagingExhausted(stagerResult = "True", opt.copy_retry_strict)
       THEN /\ RaisesInTempDir(Err("SqliteBackupError", "", opt.copy_retry))
            /\ UNCHANGED copyFrom
       ELSE IF staged[Primary] = Absent
       THEN /\ RaisesInTempDir(Err("AssertionError", Primary, 0))
            /\ UNCHANGED copyFrom
       ELSE /\ copyFrom' = "staged"
            /\ pc' = "open_dst"
            /\ UNCHANGED <<err, td, staged>>
    /\ UNCHANGED <<asideVars, steps, opt, owner, src, writerVars, stagerVars,
                   connVars, warned>>

\* lines 225-229: staging is skipped
Warn ==
    /\ pc = "warn"
    /\ copyFrom' = "live"
    /\ warned' = warned + 1
    /\ pc' = "open_dst"
    /\ UNCHANGED <<asideVars, steps, opt, owner, src, writerVars, err, td,
                   staged, stagerVars, connVars>>

\* ----------------------------------------------------- backup and cleanup
\* the files copy_from names
CopyFromFiles == IF copyFrom = "staged" THEN staged ELSE src

\* the engine has changed the files copy_from names into f
PutCopyFrom(f) ==
    IF copyFrom = "staged"
    THEN staged' = f /\ src' = src
    ELSE src' = f /\ staged' = staged

\* lines 231-240: target_connection
OpenDst ==
    /\ pc = "open_dst"
    /\ steps' = Append(steps, "open_dst")
    /\ \/ /\ opt.destination = "none"
          /\ dstConn' = "open"
          /\ dest' = [NoFiles EXCEPT ![Primary] = 0]
          /\ pc' = "open_src"
          /\ UNCHANGED <<err, td, staged>>
       \/ /\ opt.destination = "pathlike"
          /\ RaisesInTempDir(Err("TypeError", "", 0))
          /\ UNCHANGED <<dstConn, dest>>
       \/ /\ opt.destination = "out"
          /\ dstConn' = "open"
          /\ dest' = [NoFiles EXCEPT ![Primary] = 0]
          /\ pc' = "open_src"
          /\ UNCHANGED <<err, td, staged>>
       \/ /\ opt.destination = "out"
          /\ RaisesInTempDir(Err("EngineError", "open_dst", 0))
          /\ UNCHANGED <<dstConn, dest>>
    /\ UNCHANGED <<asideVars, opt, owner, src, writerVars, stagerVars,
                   copyFrom, srcConn, returned, warned>>

\* line 245: sqlite3.connect(copy_from, **sqlite_connect_kwargs)
OpenSrc ==
    /\ pc = "open_src"
    /\ steps' = Append(steps, "open_src")
    /\ \/ /\ srcConn' = "open"
          /\ pc' = "backup"
          /\ UNCHANGED <<err, td, staged>>
       \/ /\ RaisesInTempDir(Err("EngineError", "open_src", 0))
          /\ UNCHANGED srcConn
    /\ UNCHANGED <<asideVars, opt, owner, src, writerVars, stagerVars,
                   copyFrom, dstConn, dest, returned, warned>>

\* line 246: conn.backup(target_connection, **sqlite_backup_kwargs)
BackupWrapsError ==
    /\ pc = "backup"
    /\ steps' = Append(steps, "backup")
    /\ \/ /\ \E keepsLayout \in BOOLEAN :
               dest' = BackupResult(CopyFromFiles, opt.destination # "none",
                                    keepsLayout)
          /\ PutCopyFrom(EngineRead(CopyFromFiles))
          /\ pc' = "checkpoint"
          /\ UNCHANGED <<err, td>>
       \/ /\ RaisesInTempDir(Err("SqliteBackupError", "backup", 0))
          /\ UNCHANGED <<src, dest>>
    /\ UNCHANGED <<asideVars, opt, owner, writerVars, stagerVars, copyFrom,
                   srcConn, dstConn, returned, warned>>

Backup ==
    /\ pc = "backup"
    /\ steps' = Append(steps, "backup")
    /\ \/ /\ \E keepsLayout \in BOOLEAN :
               dest' = BackupResult(CopyFromFiles, opt.destination # "none",
                                    keepsLayout)
          /\ PutCopyFrom(EngineRead(CopyFromFiles))
          /\ pc' = "checkpoint"
          /\ UNCHANGED <<err, td>>
       \/ /\ RaisesInTempDir(Err("EngineError", "backup", 0))
          /\ UNCHANGED <<src, dest>>
    /\ UNCHANGED <<asideVars, opt, owner, writerVars, stagerVars, copyFrom,
                   srcConn, dstConn, returned, warned>>

\* lines 248-250
WantsCheckpointAnyDestination == opt.wal_checkpoint

WantsCheckpoint == opt.destination # "none" /\ opt.wal_checkpoint

Checkpoint ==
    /\ pc = "checkpoint"
    /\ steps' = IF WantsCheckpoint THEN Append(steps, "checkpoint") ELSE steps
    /\ \/ /\ WantsCheckpoint
          /\ dest' = Checkpointed(dest)
          /\ pc' = "close_src"
          /\ UNCHANGED <<err, td, staged>>
       \/ /\ WantsCheckpoint
          /\ RaisesInTempDir(Err("EngineError", "checkpoint", 0))
          /\ UNCHANGED dest
       \/ /\ ~WantsCheckpoint
          /\ pc' = "close_src"
          /\ UNCHANGED <<err, td, staged, dest>>
    /\ UNCHANGED <<asideVars, opt, owner, src, writerVars, stagerVars,
                   copyFrom, srcConn, dstConn, returned, warned>>

\* line 252: conn.close(); the connection to a staged copy is the only one
\* there is, the one to the live source is the last unless its owner holds one
CloseSrc ==
    /\ pc = "close_src"
    /\ steps' = Append(steps, "close_src")
    /\ srcConn' = "closed"
    /\ PutCopyFrom(EngineClose(CopyFromFiles, copyFrom = "staged" \/ ~owner))
    /\ pc' = "exit_td"
    /\ UNCHANGED <<asideVars, opt, owner, writerVars, err, td, stagerVars,
                   copyFrom, dstConn, dest, returned, warned>>

\* the end of the with block of line 206
ExitTempDir ==
    /\ pc = "exit_td"
    /\ steps' = Append(steps, "rmtree")
    /\ td' = "removed"
    /\ staged' = NoFiles
    /\ pc' = "return"
    /\ UNCHANGED <<asideVars, opt, owner, src, writerVars, err, stagerVars,
                   copyFrom, connVars, warned>>

\* lines 257-261
ReturnClosesTarget ==
    /\ pc = "return"
    /\ steps' = Append(steps, "close_dst")
    /\ returned' = "None"
    /\ dstConn' = "closed"
    /\ dest' = IF opt.destination = "none" THEN NoFiles ELSE dest
    /\ pc' = "done"
    /\ UNCHANGED <<asideVars, opt, owner, src, writerVars, err, td, staged,
                   stagerVars, copyFrom, srcConn, warned>>

Return ==
    /\ pc = "return"
    /\ steps' = Append(steps, IF opt.destination = "none" THEN "return_connection"
                                    ELSE "close_dst")
    /\ IF opt.destination = "none"
       THEN /\ returned' = "connection"
            /\ UNCHANGED <<dstConn, dest>>
       ELSE /\ returned' = "None"
            /\ dstConn' = "closed"
            /\ \E last \in BOOLEAN : dest' = EngineClose(dest, last)
    /\ pc' = "done"
    /\ UNCHANGED <<asideVars, opt, owner, src, writerVars, err, td, staged,
                   stagerVars, copyFrom, srcConn, warned>>

\* ----------------------------------------------------- the external writer
\* the writer is followed while the call still reads the source, at the
\* positions that come before a read of the source: the listing of the
\* directory, a copy, a comparison.  A write between two rounds is a write
\* before the first copy of the next round
SourceInUse ==
    IF opt.copy_use_tempdir
    THEN pc \in {"glob", "call", "ac_copy", "ac_cmp"}
    ELSE pc \in {"open_src", "backup", "checkpoint", "close_src"}

WriterDoes(dir) ==
    /\ SourceInUse
    /\ nWrites < writerBudget
    /\ nWrites' = nWrites + 1
    /\ src' = dir
    /\ shadow' = [n \in Names |-> IF dir[n] # src[n] THEN dir[n] ELSE shadow[n]]
    /\ instants' = instants \cup {shadow'}
    /\ UNCHANGED <<asideVars, steps, opt, owner, writerBudget, pc, err, td,
                   staged, stagerVars, copyFrom, connVars, warned>>

\* the owner writes the primary or the -wal file (it creates the latter)
WriterWrite ==
    \E n \in {Primary, Wal}, v \in Data :
        /\ src[n] # v
        /\ WriterDoes([src EXCEPT ![n] = v])

\* the owner removes a sidecar file
WriterRemove ==
    \E n \in {Wal, Journal} :
        /\ src[n] # Absent
        /\ WriterDoes([src EXCEPT ![n] = Absent])

Next ==
    \/ Validate
    \/ MkTemp
    \/ Glob
    \/ LoopTest
    \/ CallAtomicCopy
    \/ CallCustom
    \/ AcCopy
    \/ AcCmp
    \/ RoundEnd
    \/ StrictCheck
    \/ Warn
    \/ OpenDst
    \/ OpenSrc
    \/ Backup
    \/ Checkpoint
    \/ CloseSrc
    \/ ExitTempDir
    \/ Return
    \/ WriterWrite
    \/ WriterRemove

Spec == Init /\ [][Next]_vars

NextStager ==
    \/ Glob
    \/ LoopTest
    \/ CallAtomicCopy
    \/ CallCustom
    \/ AcCopy
    \/ AcCmp
    \/ RoundEnd
    \/ WriterWrite
    \/ WriterRemove

SpecStager == InitStager /\ [][NextStager]_vars

\* a call with atomic_copy, or with a function that wraps it, whose thread
\* keeps running: the steps of sqlite_backup are sequential code of one
\* thread, so a step that can be taken is eventually taken; nothing is
\* assumed of the owner of the database, who is followed for writerBudget
\* modifications and has stopped after them
InitLive == Init /\ opt.copy_function \in {"atomic_copy", "atomic_copy_failed"}

CallStep ==
    \/ Validate
    \/ MkTemp
    \/ Glob
    \/ LoopTest
    \/ CallAtomicCopy
    \/ AcCopy
    \/ AcCmp
    \/ RoundEnd
    \/ StrictCheck
    \/ Warn
    \/ OpenDst
    \/ OpenSrc
    \/ Backup
    \/ Checkpoint
    \/ CloseSrc
    \/ ExitTempDir
    \/ Return

NextLive ==
    \/ CallStep
    \/ WriterWrite
    \/ WriterRemove

SpecLive == InitLive /\ [][NextLive]_vars /\ WF_vars(CallStep)
\* ------------------------------------------- glob_database_files, by name
\* a file name is the sequence of its characters
DbName == <<"d", "b">>
BracketName == <<"d", "[", "b", "]">>
PrimaryNames == {DbName, BracketName}
WalSuffix == <<"-", "w", "a", "l">>
ShmSuffix == <<"-", "s", "h", "m">>
JournalSuffix == <<"-", "j", "o", "u", "r", "n", "a", "l">>

\* the names a directory of the model may hold, in the order it lists them
AllNames ==
    <<DbName, DbName \o WalSuffix, DbName \o ShmSuffix, DbName \o JournalSuffix,
      BracketName, BracketName \o WalSuffix, BracketName \o ShmSuffix,
      BracketName \o JournalSuffix, DbName \o <<"x">> \o WalSuffix>>

Listing(S) == SelectSeq(AllNames, LAMBDA f : f \in S)
Listings == {Listing(S) : S \in SUBSET {AllNames[i] : i \in 1..Len(AllNames)}}

\* str.endswith and str.startswith
endswith(name, suffix) ==
    /\ Len(name) >= Len(suffix)
    /\ SubSeq(name, Len(name) - Len(suffix) + 1, Len(name)) = suffix

startswith(name, prefix) ==
    /\ Len(name) >= Len(prefix)
    /\ SubSeq(name, 1, Len(prefix)) = prefix

\* fnmatch.translate: the position of the "]" that closes the "[" at the
\* head of pat (a "]" right after "[" or "[!" is a member of the class), 0
\* when there is none and "[" stands for itself
ClassEnd(pat) ==
    LET from == IF Len(pat) >= 2 /\ pat[2] = "!" THEN 4 ELSE 3
        ends == {j \in from..Len(pat) : pat[j] = "]"}
    IN IF ends = {} THEN 0 ELSE CHOOSE j \in ends : \A k \in ends : j <= k

\* whether the character c is in the class pat[2..ClassEnd(pat)-1]
InClass(c, pat) ==
    LET negated == pat[2] = "!"
        from == IF negated THEN 3 ELSE 2
        listed == \E j \in from..(ClassEnd(pat) - 1) : pat[j] = c
    IN IF negated THEN ~listed ELSE listed

\* pathlib's glob of one path component: the whole name matches the
\* pattern, "*" any characters, "?" any one, "[...]" one of a class
RECURSIVE fnmatch(_, _)
fnmatch(name, pat) ==
    IF pat = <<>> THEN name = <<>>
    ELSE IF Head(pat) = "*"
    THEN \/ fnmatch(name, Tail(pat))
         \/ name # <<>> /\ fnmatch(Tail(name), pat)
    ELSE IF Head(pat) = "?"
    THEN name # <<>> /\ fnmatch(Tail(name), Tail(pat))
    ELSE IF Head(pat) = "[" /\ ClassEnd(pat) > 0
    THEN /\ name # <<>>
         /\ InClass(Head(name), pat)
         /\ fnmatch(Tail(name), SubSeq(pat, ClassEnd(pat) + 1, Len(pat)))
    ELSE /\ name # <<>>
         /\ Head(name) = Head(pat)
         /\ fnmatch(Tail(name), Tail(pat))

\* glob_database_files, lines 80-87, on names: source_database first, then
\* what source_database.parent.glob(source_database.name + "-*") yields,
\* the names that end in -shm left out
glob_by_name(name, listing) ==
    <<name>> \o SelectSeq(listing, LAMBDA f : /\ fnmatch(f, name \o <<"-", "*">>)
                                             /\ ~endswith(f, ShmSuffix))

\* no call of sqlite_backup is looked at step by step
NoCall ==
    /\ opt = DefaultCall
    /\ owner = TRUE
    /\ src = NoFiles
    /\ writerBudget = 0
    /\ pc = "none"
    /\ td = "none"
    /\ steps = <<>>
    /\ Unstarted

InitGlob ==
    /\ NoCall
    /\ NoPair
    /\ NoMain
    /\ globName \in PrimaryNames
    /\ globDir \in Listings
    /\ globResult = <<>>

\* glob_database_files(source_database) is called and returns
CallGlob ==
    /\ globResult = <<>>
    /\ globResult' = glob_by_name(globName, globDir)
    /\ UNCHANGED <<callVars, pairVars, mainVars, globName, globDir>>

NextGlob == CallGlob

SpecGlob == InitGlob /\ [][NextGlob]_vars

\* ------------------------------------------------------ two calls at once
\* two calls of sqlite_backup with default arguments but for the
\* destination, each on its own quiescent source and to its own destination
\* path, in one system temporary directory; the files of the two sources
\* have the same names
MaxTempNames == 3
TempNames == 1..MaxTempNames
CallIds == {1, 2}

NoDir == [exists |-> FALSE, files |-> NoFiles]
EmptyDir == [exists |-> TRUE, files |-> NoFiles]
\* a directory somebody else has made there
OtherDir == [exists |-> TRUE, files |-> [NoFiles EXCEPT ![Journal] = 0]]

\* tempfile.mkdtemp: a name under which nothing exists (a name that is
\* taken is skipped, the directory is made with an exclusive mkdir)
mkdtemp_fixed_name(root) == {1}

mkdtemp(root) == {n \in TempNames : ~root[n].exists}

PairSources == {d \in InitialDirs : d[Primary] # Absent /\ d[Shm] = Absent
                                    /\ d[Journal] = Absent}

InitPair ==
    /\ NoCall
    /\ NoGlob
    /\ NoMain
    /\ tmpRoot \in {r \in [TempNames -> {NoDir, OtherDir}] :
                      Cardinality({n \in TempNames : ~r[n].exists}) >= 2}
    /\ \E s \in [CallIds -> PairSources] :
         pair = [i \in CallIds |->
                   [source |-> s[i], pc |-> "mktemp", tdname |-> 0,
                    files |-> <<>>, idx |-> 0, dest |-> Absent, err |-> "none"]]

\* line 206, for call i
PairMkTemp(i) ==
    /\ pair[i].pc = "mktemp"
    /\ \E n \in mkdtemp(tmpRoot) :
         /\ tmpRoot' = [tmpRoot EXCEPT ![n] = EmptyDir]
         /\ pair' = [pair EXCEPT ![i].tdname = n,
                                 ![i].files = glob_database_files(pair[i].source),
                                 ![i].idx = 1,
                                 ![i].pc = "copy"]
    /\ UNCHANGED <<callVars, globVars, mainVars>>

\* lines 211-216 for call i, its source quiescent: one shutil.copy of the
\* next file into its directory
PairCopy(i) ==
    /\ pair[i].pc = "copy"
    /\ LET p == pair[i]
           f == p.files[p.idx]
       IN IF ~tmpRoot[p.tdname].exists
          THEN /\ pair' = [pair EXCEPT ![i].pc = "failed",
                                       ![i].err = "FileNotFoundError"]
               /\ UNCHANGED tmpRoot
          ELSE /\ tmpRoot' = [tmpRoot EXCEPT ![p.tdname].files[f] = p.source[f]]
               /\ pair' = [pair EXCEPT ![i].idx = p.idx + 1,
                                       ![i].pc = IF p.idx = Len(p.files)
                                                 THEN "backup" ELSE "copy"]
    /\ UNCHANGED <<callVars, globVars, mainVars>>

\* lines 221-252 for call i: the backup from tdir / source_path.name
PairBackup(i) ==
    /\ pair[i].pc = "backup"
    /\ LET p == pair[i]
           d == tmpRoot[p.tdname]
       IN IF ~d.exists \/ d.files[Primary] = Absent
          THEN pair' = [pair EXCEPT ![i].pc = "failed", ![i].err = "AssertionError"]
          ELSE pair' = [pair EXCEPT ![i].dest = NormalRead(d.files),
                                    ![i].pc = "exit_td"]
    /\ UNCHANGED <<callVars, globVars, mainVars, tmpRoot>>

\* the end of the with block of line 206 for call i, and its return
PairExitTempDir(i) ==
    /\ pair[i].pc = "exit_td"
    /\ tmpRoot' = [tmpRoot EXCEPT ![pair[i].tdname] = NoDir]
    /\ pair' = [pair EXCEPT ![i].pc = "done"]
    /\ UNCHANGED <<callVars, globVars, mainVars>>

NextPair ==
    \E i \in CallIds :
        \/ PairMkTemp(i)
        \/ PairCopy(i)
        \/ PairBackup(i)
        \/ PairExitTempDir(i)

SpecPair == InitPair /\ [][NextPair]_vars

\* ---- the command line: main of __main__.py ----

\* what a path names: nothing, a symbolic link whose target is missing, a
\* directory, a regular file, or something else (a FIFO, a socket, a device);
\* a link to one of the last three is what it points to
PathKinds == {"missing", "dangling", "dir", "file", "other"}

\* Path.exists(), Path.is_dir(), Path.is_file(): all three follow links
exists(k) == k \notin {"missing", "dangling"}
is_dir(k) == k = "dir"
is_file(k) == k = "file"

\* the file system at DESTINATION: the path itself, its parent, and
\* DESTINATION / SOURCE_DATABASE.name; an entry has a directory for parent
\* and only a directory has something under it
FileSystems ==
    {f \in [destination : PathKinds, parent : {"missing", "dir", "file"},
            computed : PathKinds] :
        /\ f.destination # "missing" => f.parent = "dir"
        /\ f.destination # "dir" => f.computed = "missing"}

\* the options of the command, lines 11-38
MainArgs ==
    [wal_checkpoint : BOOLEAN, copy_use_tempdir : BOOLEAN,
     copy_retry : -1..MaxRetry, copy_retry_strict : BOOLEAN]

\* lines 62-86: the path to write to, or the exit with status 1
ChooseDestOverwrites(f) ==
    IF exists(f.destination)
    THEN IF is_dir(f.destination)
         THEN IF exists(f.computed)
              THEN [exit |-> 1, dest |-> "none", msg |-> "computed_exists"]
              ELSE [exit |-> 0, dest |-> "computed", msg |-> "none"]
         ELSE IF is_file(f.destination)
         THEN [exit |-> 0, dest |-> "destination", msg |-> "none"]
         ELSE [exit |-> 1, dest |-> "none", msg |-> "not_dir_or_file"]
    ELSE IF ~exists(f.parent)
         THEN [exit |-> 1, dest |-> "none", msg |-> "no_parent"]
         ELSE [exit |-> 0, dest |-> "destination", msg |-> "none"]

ChooseDest(f) ==
    IF exists(f.destination)
    THEN IF is_dir(f.destination)
         THEN IF exists(f.computed)
              THEN [exit |-> 1, dest |-> "none", msg |-> "computed_exists"]
              ELSE [exit |-> 0, dest |-> "computed", msg |-> "none"]
         ELSE IF is_file(f.destination)
         THEN [exit |-> 1, dest |-> "none", msg |-> "already_exists"]
         ELSE [exit |-> 1, dest |-> "none", msg |-> "not_dir_or_file"]
    ELSE IF ~exists(f.parent)
         THEN [exit |-> 1, dest |-> "none", msg |-> "no_parent"]
         ELSE [exit |-> 0, dest |-> "destination", msg |-> "none"]

\* main is entered: click has checked that SOURCE_DATABASE is an existing
\* file (line 42); seen is the file system as it is then, status -1 stands
\* for a process that has not exited
InitMain ==
    /\ NoCall
    /\ NoGlob
    /\ NoPair
    /\ \E a \in MainArgs, f \in FileSystems :
         main = [pc |-> "check", args |-> a, fs |-> f, seen |-> f,
                 dest |-> "none", calls |-> <<>>, status |-> -1,
                 echo |-> "none"]

\* lines 61-86
MainCheck ==
    /\ main.pc = "check"
    /\ LET d == ChooseDest(main.fs)
       IN main' = IF d.exit = 1
                  THEN [main EXCEPT !.pc = "exit", !.status = 1, !.echo = d.msg]
                  ELSE [main EXCEPT !.pc = "call", !.dest = d.dest]
    /\ UNCHANGED <<callVars, globVars, pairVars>>

\* between the check and the call another process creates the file
MainRace ==
    /\ main.pc = "call"
    /\ ~exists(main.fs[main.dest])
    /\ main.dest = "destination" => main.fs.parent = "dir"
    /\ main' = [main EXCEPT !.fs[main.dest] = "file"]
    /\ UNCHANGED <<callVars, globVars, pairVars>>

\* lines 88-95: sqlite_backup(source_database, dest, ...) returns, having
\* written the file, or raises, the file written or not; an exception leaves
\* main and the interpreter exits with status 1. Under a parent that is no
\* directory the engine cannot open the file
MainCall ==
    /\ main.pc = "call"
    /\ \E returns \in BOOLEAN, writes \in BOOLEAN :
         LET reachable == main.dest = "computed" \/ main.fs.parent = "dir"
             call == [dest |-> main.dest,
                      wal_checkpoint |-> main.args.wal_checkpoint,
                      copy_use_tempdir |-> main.args.copy_use_tempdir,
                      copy_retry |-> main.args.copy_retry,
                      copy_retry_strict |-> main.args.copy_retry_strict]
         IN /\ writes => reachable
            /\ returns => writes
            /\ main' = [main EXCEPT
                          !.calls = Append(@, call),
                          !.fs = IF writes THEN [@ EXCEPT ![main.dest] = "file"]
                                 ELSE @,
                          !.pc = IF returns THEN "echo" ELSE "exit",
                          !.status = IF returns THEN @ ELSE 1,
                          !.echo = IF returns THEN @ ELSE "traceback"]
    /\ UNCHANGED <<callVars, globVars, pairVars>>

\* line 96, and the return of main
MainEcho ==
    /\ main.pc = "echo"
    /\ main' = [main EXCEPT !.pc = "exit", !.status = 0, !.echo = "backed_up"]
    /\ UNCHANGED <<callVars, globVars, pairVars>>

NextMain ==
    \/ MainCheck
    \/ MainRace
    \/ MainCall
    \/ MainEcho

SpecMain == InitMain /\ [][NextMain]_vars

\* ================================================================ claims
Ended == pc \in {"done", "failed"}
BuiltIn == opt.copy_function \in {"atomic_copy", "atomic_copy_failed"}
Rows(n, f) == IF f[n] = Absent THEN 0 ELSE f[n]

\* C1: a successful call with staging and a copy function that is
\* atomic_copy (or wraps it), no writer active during the call, leaves a
\* destination that a normal open reads as the C rows of the source's primary
\* file plus the W rows of its -wal file
C1_RowsPreserved ==
    (pc = "done" /\ opt.copy_use_tempdir /\ BuiltIn /\ nWrites = 0)
        => NormalRead(dest) = Rows(Primary, src) + Rows(Wal, src)

C1_Witness ==
    /\ pc = "done" /\ opt.copy_use_tempdir /\ BuiltIn /\ nWrites = 0
    /\ opt.destination = "out" /\ ~opt.wal_checkpoint
    /\ src[Primary] = 1 /\ src[Wal] = 1
    /\ dest[Wal] = 1 /\ NormalRead(dest) = 2

\* C2 (as claimed): when copy_all_files with atomic_copy has returned True,
\* the staged files are the source's files as they were at one instant of
\* the call
StagedAt(i) == \A n \in Names \ {Shm} : staged[n] = i[n]

C2_CleanIsOneInstant ==
    (stagerResult = "True" /\ opt.copy_function = "atomic_copy")
        => \E i \in instants : StagedAt(i)

\* C3: strict mode, staging on, a copy function that reports not clean on
\* every call (none of its calls raised): the call fails with
\* SqliteBackupError naming copy_retry, after copy_retry+1 rounds of one call
\* per file, no connection opened, the directory gone
C3_StrictExhaustion ==
    (/\ Ended /\ td # "none"
     /\ opt.copy_use_tempdir /\ opt.copy_retry_strict
     /\ opt.copy_function = "atomic_copy_failed"
     /\ err.type # "FileNotFoundError")
        => /\ pc = "failed"
           /\ err = Err("SqliteBackupError", "", opt.copy_retry)
           /\ Len(rounds) = opt.copy_retry + 1
           /\ \A i \in 1..Len(rounds) : rounds[i].calls = Len(files)
           /\ nCalls = (opt.copy_retry + 1) * Len(files)
           /\ srcConn = "none" /\ dstConn = "none"
           /\ td = "removed"

C3_Witness ==
    /\ pc = "failed" /\ err.type = "SqliteBackupError"
    /\ opt.copy_function = "atomic_copy_failed"
    /\ opt.copy_retry = MaxRetry /\ Len(files) = 2
    /\ nCalls = 2 * (MaxRetry + 1)

\* C4: for a budget N >= 0 copy_all_files runs at most N+1 rounds, none
\* after a clean one; it returns True at the end of the first clean round,
\* and False exactly when N+1 rounds were run and each was dirty
C4_Rounds ==
    opt.copy_retry >= 0 =>
        /\ Len(rounds) <= opt.copy_retry + 1
        /\ \A i \in 1..(Len(rounds) - 1) : rounds[i].dirty
        /\ (Len(rounds) > 0 /\ ~rounds[Len(rounds)].dirty)
              => stagerResult = "True"
        /\ stagerResult = "True"
              => Len(rounds) > 0 /\ ~rounds[Len(rounds)].dirty
        /\ stagerResult = "False"
              => /\ Len(rounds) = opt.copy_retry + 1
                 /\ \A i \in 1..Len(rounds) : rounds[i].dirty
        /\ (/\ Len(rounds) = opt.copy_retry + 1
            /\ \A i \in 1..Len(rounds) : rounds[i].dirty
            /\ pc \notin {"loop", "failed"})
              => stagerResult = "False"

C4_Witness ==
    /\ opt.copy_retry = 1 /\ stagerResult = "True"
    /\ Len(rounds) = 2 /\ rounds[1].dirty /\ ~rounds[2].dirty

\* C5: atomic_copy returns right after a comparison that found the files
\* equal; it returns True iff no comparison of the call found them unequal;
\* after an unequal comparison succeeded is False for the rest of the call
C5_AtomicCopy ==
    /\ lastCall # <<>> =>
          LET result == lastCall[1]
              c == lastCall[2]
          IN /\ Len(c) > 0 /\ c[Len(c)]
             /\ result <=> (\A i \in 1..(Len(c) - 1) : c[i])
    /\ (pc \in {"ac_copy", "ac_cmp"} /\ \E i \in 1..Len(cmps) : ~cmps[i])
          => ~succeeded

C5_Witness == lastCall = <<FALSE, <<FALSE, TRUE>>>>

\* C6 (as claimed): the retry ceiling caps the copies of a staging run: at
\* most copy_retry+1 per enumerated file
C6_CeilingCapsCopies ==
    BuiltIn => nCopies <= (opt.copy_retry + 1) * Len(files)

\* C6 (amended): a staging run makes at most copy_retry+1 copies per file
\* plus one for each modification the writer made during the run
C6_CopiesBoundedByWrites ==
    BuiltIn => nCopies <= (opt.copy_retry + 1) * Len(files) + nWrites

C6_Witness ==
    /\ BuiltIn /\ stagerResult # "none"
    /\ nWrites = MaxWrites
    /\ nCopies = (opt.copy_retry + 1) * Len(files) + nWrites

\* C7: the call fails with SqliteBackupError iff staging was on, the stager
\* returned False and strict mode is on.  After a dirty staging without
\* strict mode the call goes on to the backup from the staged copy (it does
\* whenever the budget is >= 0 and the copy function is atomic_copy or wraps
\* it; the assert of line 222 stops it when the primary was never staged);
\* when staging is skipped it goes on to the backup from the live source
PastStaging == pc \notin {"validate", "mktemp", "glob", "loop", "call", "ac_copy",
                          "ac_cmp", "round_end", "strict_check", "warn"}

C7_ExhaustionIffStrictDirty ==
    /\ err.type = "SqliteBackupError"
          <=> (/\ opt.copy_use_tempdir /\ stagerResult = "False"
               /\ opt.copy_retry_strict /\ pc # "strict_check")
    /\ (stagerResult = "False" /\ ~opt.copy_retry_strict /\ pc # "strict_check")
          => \/ PastStaging /\ copyFrom = "staged"
             \/ /\ pc = "failed" /\ err.type = "AssertionError"
                /\ opt.copy_retry < 0 \/ opt.copy_function = "custom"
    /\ (~opt.copy_use_tempdir /\ pc \notin {"validate", "mktemp", "warn"}
        /\ td # "none")
          => PastStaging /\ copyFrom = "live"

C7_Witness ==
    /\ stagerResult = "False" /\ ~opt.copy_retry_strict
    /\ opt.copy_retry >= 0 /\ pc = "backup" /\ srcConn = "open"

\* C8: when the call has ended, however it ended, its temporary directory
\* does not exist
C8_TempDirGone == Ended => td # "exists" /\ staged = NoFiles

C8_Witness ==
    /\ pc = "failed" /\ td = "removed"
    /\ err = Err("EngineError", "checkpoint", 0)

\* C9 (as claimed): when the call has failed, no connection it opened is
\* still open; when it has returned for a destination path, both are closed
C9_ConnectionsClosed ==
    /\ pc = "failed" => srcConn # "open" /\ dstConn # "open"
    /\ (pc = "done" /\ opt.destination # "none")
          => srcConn = "closed" /\ dstConn = "closed"

\* C10 (as claimed): the source directory is at every moment what the
\* writer alone has made it
C10_SourceUntouched == src = shadow

\* the copy function copies every file it is called for: staging is skipped
\* or the function is atomic_copy or wraps it
FaithfulCopy == ~opt.copy_use_tempdir \/ BuiltIn
SourceRows == Rows(Primary, src) + Rows(Wal, src)

\* C11: a call that has returned without a destination has returned the
\* in-memory connection, open, with the directory removed and the source
\* connection closed, and (the source quiescent) it reads all the rows of
\* the source; a call that has returned for a destination path has returned
\* None and closed the destination connection.  Nothing is returned before
C11_Returned ==
    /\ (pc = "done" /\ opt.destination = "none")
          => /\ returned = "connection" /\ dstConn = "open"
             /\ td = "removed" /\ srcConn = "closed"
             /\ (FaithfulCopy /\ nWrites = 0) => NormalRead(dest) = SourceRows
    /\ (pc = "done" /\ opt.destination # "none")
          => returned = "None" /\ dstConn = "closed"
    /\ pc # "done" => returned = "nothing"

C11_Witness ==
    /\ pc = "done" /\ opt.destination = "none" /\ returned = "connection"
    /\ dstConn = "open" /\ td = "removed" /\ nWrites = 0
    /\ src[Wal] = 1 /\ src[Primary] = 1 /\ NormalRead(dest) = 2

\* C12: a call that has returned for a destination path with wal_checkpoint
\* on leaves a destination with no row in its -wal file only: an immutable
\* open reads what a normal open reads, all the rows of the source (the
\* source quiescent)
C12_CheckpointMerges ==
    (pc = "done" /\ opt.destination = "out" /\ opt.wal_checkpoint)
        => /\ ImmutableRead(dest) = NormalRead(dest)
           /\ (FaithfulCopy /\ nWrites = 0) => ImmutableRead(dest) = SourceRows

C12_Witness ==
    /\ pc = "done" /\ opt.destination = "out" /\ opt.wal_checkpoint
    /\ nWrites = 0 /\ src[Primary] = 1 /\ src[Wal] = 1
    /\ dest[Wal] = 0 /\ ImmutableRead(dest) = 2

\* C13: a call that has returned for a destination path with wal_checkpoint
\* off (staging with atomic_copy, the source quiescent) leaves a destination
\* that a normal open reads as all the rows of the source, and an immutable
\* open as either all of them or the rows of the source's primary file alone;
\* the state in which the immutable open reads fewer is C13_Witness
C13_NoCheckpoint ==
    (/\ pc = "done" /\ opt.destination = "out" /\ ~opt.wal_checkpoint
     /\ opt.copy_use_tempdir /\ BuiltIn /\ nWrites = 0)
        => /\ NormalRead(dest) = SourceRows
           /\ ImmutableRead(dest) \in {Rows(Primary, src), SourceRows}

C13_Witness ==
    /\ pc = "done" /\ opt.destination = "out" /\ ~opt.wal_checkpoint
    /\ opt.copy_use_tempdir /\ BuiltIn /\ nWrites = 0
    /\ ImmutableRead(dest) < NormalRead(dest)
    /\ NormalRead(dest) = SourceRows

\* nothing of the call has happened but its validation: no directory, no
\* call of the copy function, no copy, no connection, no warning, nothing
\* returned, the source and the destination as they were
NoSideEffects ==
    /\ td = "none" /\ staged = NoFiles
    /\ nCalls = 0 /\ nCopies = 0
    /\ srcConn = "none" /\ dstConn = "none"
    /\ dest = NoFiles /\ src = shadow /\ nWrites = 0
    /\ warned = 0 /\ returned = "nothing"

\* C14: the source exists and the destination is the source path: once past
\* validation the call has failed with ValueError and has had no side effect
C14_SamePathRejected ==
    (opt.destination = Primary /\ src[Primary] # Absent /\ pc # "validate")
        => /\ pc = "failed"
           /\ err = Err("ValueError", Primary, 0)
           /\ NoSideEffects

C14_Witness ==
    /\ opt.destination = Primary /\ src[Wal] = 1
    /\ pc = "failed" /\ err.type = "ValueError"

\* C15: the source does not exist: once past validation the call has failed
\* with FileNotFoundError carrying the source path and has had no side
\* effect, whatever the destination is
C15_NotFoundFirst ==
    (src[Primary] = Absent /\ pc # "validate")
        => /\ pc = "failed"
           /\ err = Err("FileNotFoundError", Primary, 0)
           /\ NoSideEffects

C15_Witness ==
    /\ src[Primary] = Absent /\ opt.destination = Primary
    /\ pc = "failed" /\ err.type = "FileNotFoundError" /\ err.arg = Primary

\* C16: with staging skipped the call never calls the copy function and
\* never copies a file, it has warned exactly once when it is past line 227
\* and not before, and the source connection is on the live source; with
\* staging on it never warns and the source connection is on the staged
\* primary file, which exists as long as the directory does
C16_StagingOrLive ==
    /\ ~opt.copy_use_tempdir
          => /\ nCalls = 0 /\ nCopies = 0 /\ staged = NoFiles
             /\ warned = (IF copyFrom = "live" THEN 1 ELSE 0)
             /\ copyFrom = "live" <=> (td # "none" /\ pc \notin {"mktemp", "warn"})
             /\ (pc = "done" /\ nWrites = 0) => NormalRead(dest) = SourceRows
    /\ opt.copy_use_tempdir
          => /\ warned = 0
             /\ copyFrom # "live"
             /\ srcConn # "none" => copyFrom = "staged"
             /\ (srcConn = "open" /\ td = "exists") => staged[Primary] # Absent

C16_Witness ==
    /\ ~opt.copy_use_tempdir /\ pc = "done" /\ warned = 1
    /\ nWrites = 0 /\ NormalRead(dest) = 2 /\ nCopies = 0

\* the result the claim describes: the primary, then the names of the
\* directory that are the primary's name, "-" and a suffix, and do not end
\* in -shm, each once
Siblings(name, listing) ==
    SelectSeq(listing, LAMBDA f : /\ startswith(f, name \o <<"-">>)
                                  /\ ~endswith(f, ShmSuffix))

\* C17 (as claimed): for every primary name and directory content,
\* glob_database_files returns the primary followed by exactly its siblings
\* that do not end in -shm
C17_GlobExact ==
    globResult # <<>> => globResult = <<globName>> \o Siblings(globName, globDir)

\* C17, for a primary name without a character glob patterns give a
\* meaning to: the result is as claimed
C17_GlobExactPlainName ==
    (globResult # <<>> /\ globName = DbName)
        => globResult = <<globName>> \o Siblings(globName, globDir)

\* C18 (as claimed): copy_all_files with atomic_copy and a budget N >= 0
\* never raises, whatever the writer does to the files: it only ever returns
C18_StagerNeverRaises ==
    (opt.copy_function = "atomic_copy" /\ opt.copy_retry >= 0) => pc # "failed"

\* call i has a directory of its own
HasDir(i) == pair[i].pc \in {"copy", "backup", "exit_td"}

\* C19: of two calls at once on different sources, each has a directory the
\* other does not have, which exists as long as the call uses it and holds
\* nothing but copies of the call's own source files; no call fails, and a
\* call that has returned has given its destination the rows of its own
\* source, as it does alone
C19_CallsIsolated ==
    \A i \in CallIds :
        /\ pair[i].pc # "failed"
        /\ HasDir(i) =>
              /\ tmpRoot[pair[i].tdname].exists
              /\ \A j \in CallIds \ {i} :
                    HasDir(j) => pair[j].tdname # pair[i].tdname
              /\ \A f \in Names :
                    tmpRoot[pair[i].tdname].files[f] \in {Absent, pair[i].source[f]}
        /\ pair[i].pc = "done" => pair[i].dest = NormalRead(pair[i].source)

C19_Witness ==
    /\ HasDir(1) /\ HasDir(2)
    /\ pair[1].source[Primary] # pair[2].source[Primary]
    /\ tmpRoot[pair[1].tdname].files[Primary] = pair[1].source[Primary]
    /\ tmpRoot[pair[2].tdname].files[Primary] = pair[2].source[Primary]

IsPrefix(a, b) == Len(a) <= Len(b) /\ SubSeq(b, 1, Len(a)) = a

\* the steps of a call with arguments o that runs to its end, in the order
\* the claim gives
ExpectedSteps(o) ==
    <<"validate", "mktemp">>
    \o (IF o.copy_use_tempdir THEN <<"staging">> ELSE <<>>)
    \o <<"open_dst", "open_src", "backup">>
    \o (IF o.destination # "none" /\ o.wal_checkpoint
        THEN <<"checkpoint">> ELSE <<>>)
    \o <<"close_src", "rmtree">>
    \o (IF o.destination = "none" THEN <<"return_connection">>
        ELSE <<"close_dst">>)

\* C20: the steps a call has taken are, at every moment, the first steps of
\* the order: validation, directory, staging, destination connection,
\* source connection, backup, checkpoint (iff a destination path was given
\* and wal_checkpoint is on), close of the source connection, removal of
\* the directory, close or return of the destination connection; a call
\* that has returned has taken them all; no connection is opened before the
\* stager has returned
C20_StepOrder ==
    /\ IsPrefix(steps, ExpectedSteps(opt))
    /\ pc = "done" => steps = ExpectedSteps(opt)
    /\ (dstConn # "none" \/ srcConn # "none")
          => /\ PastStaging
             /\ opt.copy_use_tempdir => stagerResult # "none"

C20_Witness ==
    /\ pc = "done" /\ opt.destination = "out" /\ opt.wal_checkpoint
    /\ opt.copy_use_tempdir /\ Len(rounds) = 2
    /\ steps = <<"validate", "mktemp", "staging", "open_dst", "open_src",
                 "backup", "checkpoint", "close_src", "rmtree", "close_dst">>

\* C21: in every round copy_function is called once for each file of the
\* set, in the order of the enumeration, the primary first, whatever the
\* calls before it in the round reported: the number of calls made is that
\* of the finished rounds times the number of files plus the position in
\* the running round.  With atomic_copy (or a function that wraps it), once
\* a round is finished every enumerated file has a copy in the directory
C21_EveryFileEveryRound ==
    /\ \A i \in 1..Len(rounds) : rounds[i].calls = Len(files)
    /\ pc \in {"call", "ac_copy", "ac_cmp", "round_end"}
          => /\ files[1] = Primary
             /\ idx \in 1..Len(files)
             /\ Len(cur) = (IF pc = "round_end" THEN idx ELSE idx - 1)
             /\ nCalls = Len(rounds) * Len(files)
                           + (IF pc = "call" THEN idx - 1 ELSE idx)
    /\ (BuiltIn /\ Len(rounds) > 0 /\ pc # "failed")
          => \A i \in 1..Len(files) : staged[files[i]] # Absent

C21_Witness ==
    /\ BuiltIn /\ Len(files) = 3 /\ pc = "round_end"
    /\ cur = <<FALSE, TRUE, TRUE>>
    /\ \A i \in 1..Len(files) : staged[files[i]] # Absent

EngineSteps == {"open_dst", "open_src", "backup", "checkpoint"}
Occurrences(seq, x) == Cardinality({i \in 1..Len(seq) : seq[i] = x})

\* C22: a call that has failed in an engine step (the opening of the
\* destination or of the source, the backup, the checkpoint) has failed
\* with the engine's error for that step (at the destination step, with the
\* TypeError of line 237 for a destination that is no str or Path), has
\* returned nothing, and has attempted each engine step at most once; an
\* engine error is never found in a call that goes on
C22_EngineErrorPropagates ==
    /\ \A x \in EngineSteps : Occurrences(steps, x) <= 1
    /\ (pc = "failed" /\ steps # <<>> /\ steps[Len(steps)] \in EngineSteps)
          => /\ returned = "nothing"
             /\ \/ err = Err("EngineError", steps[Len(steps)], 0)
                \/ /\ steps[Len(steps)] = "open_dst"
                   /\ opt.destination = "pathlike"
                   /\ err = Err("TypeError", "", 0)
    /\ err.type = "EngineError"
          => /\ pc = "failed"
             /\ err.arg = steps[Len(steps)]
             /\ returned = "nothing"

C22_Witness ==
    /\ pc = "failed" /\ err = Err("EngineError", "backup", 0)
    /\ steps = <<"validate", "mktemp", "staging", "open_dst", "open_src",
                 "backup">>
    /\ returned = "nothing"

\* C23: staging on, atomic_copy or a function that wraps it, copy_retry >= 0:
\* the assertion of line 222 never fails; a call past the strict-mode check
\* that has not failed reads from the staged files, and the staged primary
\* file exists from then on as long as the directory does, the stager's
\* result True or False
C23_StagedPrimaryExists ==
    (opt.copy_use_tempdir /\ BuiltIn /\ opt.copy_retry >= 0)
        => /\ err.type # "AssertionError"
           /\ (PastStaging /\ pc # "failed") => copyFrom = "staged"
           /\ (copyFrom = "staged" /\ td = "exists")
                 => staged[Primary] # Absent
           /\ (stagerResult # "none" /\ pc = "strict_check")
                 => staged[Primary] # Absent

C23_Witness ==
    /\ opt.copy_use_tempdir /\ BuiltIn /\ opt.copy_retry >= 0
    /\ stagerResult = "False" /\ ~opt.copy_retry_strict
    /\ srcConn = "open" /\ copyFrom = "staged" /\ td = "exists"
    /\ staged[Primary] # Absent /\ nWrites > 0

\* C24: the source files untouched during the call, atomic_copy, copy_retry
\* >= 0: the stager returns True after exactly one round of one copy per
\* file, and the call does not fail with the staging-exhaustion error whatever
\* copy_retry_strict is
Quiescent == nWrites = 0 /\ src = shadow
C24_QuiescentOneRound ==
    (Quiescent /\ opt.copy_use_tempdir /\ opt.copy_function = "atomic_copy"
       /\ opt.copy_retry >= 0)
        => /\ stagerResult # "False"
           /\ err.type # "SqliteBackupError"
           /\ Len(rounds) <= 1
           /\ nCopies <= nCalls /\ nCalls <= Len(files)
           /\ \A i \in 1..Len(rounds) : ~rounds[i].dirty
           /\ stagerResult = "True"
                 => /\ Len(rounds) = 1
                    /\ nCopies = Len(files) /\ nCalls = Len(files)
           /\ (PastStaging /\ pc # "failed") => stagerResult = "True"
           /\ pc = "failed"
                 => /\ err.type \in {"FileNotFoundError", "ValueError",
                                     "TypeError", "EngineError"}
                    /\ err.type \in {"FileNotFoundError", "ValueError"}
                          => nCalls = 0

C24_Witness ==
    /\ Quiescent /\ opt.copy_use_tempdir /\ opt.copy_function = "atomic_copy"
    /\ opt.copy_retry = MaxRetry /\ opt.copy_retry_strict
    /\ stagerResult = "True" /\ Len(rounds) = 1
    /\ Len(files) = 2 /\ nCopies = 2 /\ nCalls = 2 /\ pc = "done"

\* C25: once the owner has stopped modifying the source files, a call with
\* atomic_copy ends, by returning or by raising: it does not stay in staging
\* for ever, and once ended it stays ended
C25_Terminates == <>[]Ended

C25_Witness ==
    /\ Ended /\ opt.copy_use_tempdir /\ opt.copy_function = "atomic_copy"
    /\ nWrites = writerBudget /\ stagerResult = "False"
    /\ \E i \in 1..Len(cmps) : ~cmps[i]

\* C26: the command line calls sqlite_backup at most once, with the options
\* it was given and a path that did not exist when it looked: the path under
\* DESTINATION named after the source when DESTINATION is a directory,
\* DESTINATION itself otherwise; when DESTINATION is a file, the path under
\* the directory exists, DESTINATION is neither file nor directory, or the
\* parent of a missing DESTINATION is missing, it exits with status 1, has
\* not called sqlite_backup and has left the file system as it was; in every
\* other case it does call
Rejected(f) ==
    \/ is_file(f.destination)
    \/ is_dir(f.destination) /\ exists(f.computed)
    \/ exists(f.destination) /\ ~is_dir(f.destination) /\ ~is_file(f.destination)
    \/ ~exists(f.destination) /\ ~exists(f.parent)

C26_MainChecksDestination ==
    LET f == main.seen
    IN /\ Len(main.calls) <= 1
       /\ \A i \in 1..Len(main.calls) :
             LET c == main.calls[i]
             IN /\ c.dest \in {"destination", "computed"}
                /\ ~exists(f[c.dest])
                /\ c.dest = "computed" <=> is_dir(f.destination)
                /\ \A o \in DOMAIN main.args : c[o] = main.args[o]
       /\ (Rejected(f) /\ main.pc # "check")
             => /\ main.pc = "exit" /\ main.status = 1
                /\ main.calls = <<>>
                /\ main.fs = f
       /\ (~Rejected(f) /\ main.pc \in {"echo", "exit"})
             => Len(main.calls) = 1
       /\ main.status = 0
             => Len(main.calls) = 1 /\ main.fs[main.dest] = "file"

C26_Witness ==
    /\ main.pc = "exit" /\ main.status = 0
    /\ main.seen.destination = "dir" /\ main.seen.computed = "missing"
    /\ Len(main.calls) = 1 /\ main.calls[1].dest = "computed"
    /\ main.fs.computed = "file"
====
